---- MODULE Spec2Model ----
(***************************************************************************)
(* The review workflow of lib/agent_gemini.py: the ReviewerState aggregate, *)
(* the nine stage nodes, the two routers and the graph that sequences them. *)
(* One run of the graph is modelled; every step is one node execution, the  *)
(* merge of its delta into the state and the choice of the next node.       *)
(*                                                                         *)
(* Numbers: relevance scores are kept in tenths (0.5 is 5), dimension       *)
(* scores in tenths (2.5 is 25), the final score in units of 10^-5.         *)
(***************************************************************************)
EXTENDS Integers, Sequences, FiniteSets, TLC

VARIABLES
    state,      \* the canonical ReviewerState of the run
    next,       \* the node the graph runs next, or END
    mutated,    \* the arxiv ids of the RelatedWork objects the last node assigned to in place
    delta,      \* the delta the last node returned
    trace,      \* the nodes executed so far, in order
    all_states, \* the dict run_review.review_paper collects from the streamed deltas
    runs,       \* per review_paper call on one AgenticPaperReviewer: its state, next node and step
    saver,      \* the checkpoints the MemorySaver of that reviewer's graph holds
    search_calls \* the requests sent to the search service, counted in the runs of SearchSpec

vars == <<state, next, mutated, delta, trace, all_states, runs, saver, search_calls>>

\* ---------------------------------------------------------------- bounds
\* longest query list the inference service answers with
MaxQueries == 1
\* most collaborator faults (error entries) injected into one run
MaxErrors == 2

\* ---------------------------------------------------------------- helpers
None == <<>>
Some(x) == <<x>>

START == "__start__"
END == "__end__"

SeqToSet(s) == {s[i] : i \in 1..Len(s)}

Min(a, b) == IF a < b THEN a ELSE b
Max(a, b) == IF a > b THEN a ELSE b

\* s[:n] of Python
Take(s, n) == SubSeq(s, 1, Min(n, Len(s)))

IsPrefix(s, t) == Len(s) <= Len(t) /\ SubSeq(t, 1, Len(s)) = s

RECURSIVE ConcatAll(_)
ConcatAll(ss) == IF ss = <<>> THEN <<>> ELSE Head(ss) \o ConcatAll(Tail(ss))

\* ---------------------------------------------------------------- state
Fields ==
    {"paper_pdf_path", "target_venue", "paper_markdown", "paper_metadata",
     "validation_passed", "search_queries", "search_results", "related_works",
     "selected_related_works", "review_sections", "dimension_scores",
     "final_score", "full_review", "iteration_count", "errors",
     "current_stage", "needs_replanning"}

IsSuffix(s, t) == Len(s) <= Len(t) /\ SubSeq(t, Len(t) - Len(s) + 1, Len(t)) = s

\* mutant: errors declared without its reducer, so the last write wins
MergeField_NoReducer(f, old, new) == new

\* mutant: the reducer concatenates the wrong way round
MergeField_Prepend(f, old, new) == IF f = "errors" THEN new \o old ELSE new

\* mutant: the reducer skips entries the list already ends with
MergeField_Idempotent(f, old, new) ==
    IF f = "errors" THEN (IF IsSuffix(new, old) THEN old ELSE old \o new) ELSE new

\* mutant: every list channel has the append reducer
MergeField_Accumulate(f, old, new) ==
    IF f \in {"errors", "search_queries", "search_results", "related_works",
              "selected_related_works"}
    THEN old \o new
    ELSE new

\* errors: Annotated[List[str], operator.add]; every other channel keeps the last value
MergeField(f, old, new) == IF f = "errors" THEN old \o new ELSE new

Merge(s, d) ==
    [f \in DOMAIN s |-> IF f \in DOMAIN d THEN MergeField(f, s[f], d[f]) ELSE s[f]]

\* the initial_state built by the two entry points
initial_state(path, content, stage) ==
    [paper_pdf_path |-> path,
     target_venue |-> None,
     paper_markdown |-> content,
     paper_metadata |-> None,
     validation_passed |-> FALSE,
     search_queries |-> <<>>,
     search_results |-> <<>>,
     related_works |-> <<>>,
     selected_related_works |-> <<>>,
     review_sections |-> <<>>,
     dimension_scores |-> <<>>,
     final_score |-> None,
     full_review |-> "",
     iteration_count |-> 0,
     errors |-> <<>>,
     current_stage |-> stage,
     needs_replanning |-> FALSE]

\* AgenticPaperReviewer.review_paper called with a path or with a content
\* (with neither it raises ValueError before a run exists), and
\* run_review.review_paper, which is called with a path
InitialStates ==
    {initial_state("paper.pdf", "", "pdf_to_markdown"),
     initial_state("", "md", "metadata_extraction"),
     initial_state("paper.pdf", "", "start")}

\* ---------------------------------------------------------------- pdf_to_markdown
\* fs: what the file system and the extractor do for the path:
\*   exists: os.path.exists(pdf_path); extract: "text" or "fault"
FileSystems == [exists : BOOLEAN, extract : {"text", "fault"}]

\* pdf_path.endswith(".md")
EndsWithMd(path) == path = "paper.md"

\* mutant: a failed extraction reports the fault and the missing text separately
pdf_to_markdown_node_TwoErrors(s, fs) ==
    LET pdf_path == s.paper_pdf_path
        exists == fs.exists /\ pdf_path # ""
    IN  IF (EndsWithMd(pdf_path) \/ ~exists) /\ s.paper_markdown # ""
        THEN [paper_markdown |-> s.paper_markdown, current_stage |-> "metadata_extraction"]
        ELSE IF exists /\ fs.extract = "text"
        THEN [paper_markdown |-> "md", current_stage |-> "metadata_extraction"]
        ELSE [errors |-> <<"PDF conversion failed", "No text extracted">>,
              current_stage |-> "failed"]

pdf_to_markdown_node(s, fs) ==
    LET pdf_path == s.paper_pdf_path
        exists == fs.exists /\ pdf_path # ""
    IN  IF (EndsWithMd(pdf_path) \/ ~exists) /\ s.paper_markdown # ""
        THEN [paper_markdown |-> s.paper_markdown, current_stage |-> "metadata_extraction"]
        ELSE IF exists /\ fs.extract = "text"
        THEN [paper_markdown |-> "md", current_stage |-> "metadata_extraction"]
        ELSE [errors |-> <<"PDF conversion failed">>, current_stage |-> "failed"]

\* ---------------------------------------------------------------- metadata_extraction
\* the inference service's answer: a fault, a text without JSON, a JSON that
\* PaperMetadata rejects (no title), or a JSON with is_academic_paper true, false or absent
MetaResponses ==
    {[kind |-> "fault", is_academic_paper |-> "absent"],
     [kind |-> "nojson", is_academic_paper |-> "absent"],
     [kind |-> "badjson", is_academic_paper |-> "absent"]}
    \cup [kind : {"json"}, is_academic_paper : {"true", "false", "absent"}]

\* PaperMetadata(**metadata_dict): is_academic_paper defaults to True
PaperMetadata(r) == [title |-> "title", is_academic_paper |-> (r.is_academic_paper # "false")]

\* mutant: the rejection of a non-academic document adds no error entry
metadata_extraction_node_CleanReject(s, r) ==
    IF r.kind = "json"
    THEN [paper_metadata |-> Some(PaperMetadata(r)),
          validation_passed |-> PaperMetadata(r).is_academic_paper,
          current_stage |-> IF PaperMetadata(r).is_academic_paper
                            THEN "search_query_generation" ELSE "failed"]
    ELSE [errors |-> <<"Metadata extraction failed">>,
          validation_passed |-> FALSE,
          current_stage |-> "failed"]

\* mutant: the rejected document is marked as validated, so the gate lets it pass
metadata_extraction_node_PassesRejected(s, r) ==
    IF r.kind = "json"
    THEN LET metadata == PaperMetadata(r)
         IN  IF ~metadata.is_academic_paper
             THEN [paper_metadata |-> Some(metadata),
                   validation_passed |-> TRUE,
                   errors |-> <<"Document does not appear to be an academic paper">>,
                   current_stage |-> "failed"]
             ELSE [paper_metadata |-> Some(metadata),
                   validation_passed |-> TRUE,
                   current_stage |-> "search_query_generation"]
    ELSE [errors |-> <<"Metadata extraction failed">>,
          validation_passed |-> FALSE,
          current_stage |-> "failed"]

metadata_extraction_node(s, r) ==
    IF r.kind = "json"
    THEN LET metadata == PaperMetadata(r)
             validation_passed == metadata.is_academic_paper
         IN  IF ~validation_passed
             THEN [paper_metadata |-> Some(metadata),
                   validation_passed |-> FALSE,
                   errors |-> <<"Document does not appear to be an academic paper">>,
                   current_stage |-> "failed"]
             ELSE [paper_metadata |-> Some(metadata),
                   validation_passed |-> TRUE,
                   current_stage |-> "search_query_generation"]
    ELSE [errors |-> <<"Metadata extraction failed">>,
          validation_passed |-> FALSE,
          current_stage |-> "failed"]

\* ---------------------------------------------------------------- search_query_generation
QueryNames == <<"q1", "q2", "q3", "q4", "q5", "q6", "q7">>

\* one entry of search_queries; has_query is FALSE for an entry without a "query" key
Query(text) == [has_query |-> TRUE, query |-> text]
NoQueryKey == [has_query |-> FALSE, query |-> ""]

\* the lists the inference service may put under "queries": up to MaxQueries
\* well-formed entries, or a list with an entry that lacks its "query" key
QueryLists ==
    {[i \in 1..n |-> Query(QueryNames[i])] : n \in 0..MaxQueries}
    \cup {<<NoQueryKey>>, <<Query(QueryNames[1]), NoQueryKey>>}

QueryResponses ==
    {[kind |-> k, queries |-> <<>>] : k \in {"fault", "nojson", "badjson"}}
    \cup [kind : {"json"}, queries : QueryLists]

\* keywords are empty in the model, so the second fallback query is 'deep learning'
FallbackQueries == <<Query("title"), Query("deep learning")>>

search_query_generation_node(s, r) ==
    IF s.paper_metadata = None \/ r.kind \in {"fault", "badjson"}
    THEN [errors |-> <<"Query generation failed">>,
          search_queries |-> <<>>,
          current_stage |-> "web_search"]
    ELSE [search_queries |-> IF r.kind = "json" THEN r.queries ELSE FallbackQueries,
          current_stage |-> "web_search"]

\* ---------------------------------------------------------------- web_search
\* mutant: the loop reads every entry of search_queries
QueryLimit_All == Len(QueryNames)

\* state["search_queries"][:5]
QueryLimit == 5

\* the search service's answer to one query: a fault, or a list of arXiv ids
\* (no entry, or two of the three papers the service knows)
SearchAnswers ==
    {[fault |-> TRUE, ids |-> <<>>],
     [fault |-> FALSE, ids |-> <<>>],
     [fault |-> FALSE, ids |-> <<1, 2>>],
     [fault |-> FALSE, ids |-> <<2, 3>>]}

SearchEntry(id, query_info) == [arxiv_id |-> id, query_source |-> query_info]

\* the entries one query contributes to all_results
QueryResults(query_info, answer) ==
    IF answer.fault THEN <<>>
    ELSE [j \in 1..Len(answer.ids) |-> SearchEntry(answer.ids[j], query_info)]

RECURSIVE DedupFrom(_, _)
DedupFrom(results, seen_ids) ==
    IF results = <<>> THEN <<>>
    ELSE IF Head(results).arxiv_id \in seen_ids
         THEN DedupFrom(Tail(results), seen_ids)
         ELSE <<Head(results)>> \o DedupFrom(Tail(results), seen_ids \cup {Head(results).arxiv_id})

\* mutant: of the entries with one arxiv_id the last is kept instead of the first
RECURSIVE Deduplicate_KeepLast(_)
Deduplicate_KeepLast(all_results) ==
    IF all_results = <<>> THEN <<>>
    ELSE IF \E i \in 2..Len(all_results) : all_results[i].arxiv_id = Head(all_results).arxiv_id
         THEN Deduplicate_KeepLast(Tail(all_results))
         ELSE <<Head(all_results)>> \o Deduplicate_KeepLast(Tail(all_results))

\* Deduplicate by arxiv_id, keeping the first occurrence
Deduplicate(all_results) == DedupFrom(all_results, {})

\* mutant: a query that faults is not caught per query, so it fails the stage
web_search_node_FaultFails(s, answers) ==
    LET queries == Take(s.search_queries, QueryLimit)
    IN  IF \E i \in 1..Len(queries) : ~queries[i].has_query \/ answers[i].fault
        THEN [errors |-> <<"Web search failed">>,
              search_results |-> <<>>,
              current_stage |-> "relevance_evaluation"]
        ELSE LET all_results ==
                     ConcatAll([i \in 1..Len(queries) |-> QueryResults(queries[i], answers[i])])
             IN  [search_results |-> Deduplicate(all_results),
                  current_stage |-> "relevance_evaluation"]

\* mutant: a query that faults ends the loop (break instead of continue)
web_search_node_BreakOnFault(s, answers) ==
    LET queries == Take(s.search_queries, QueryLimit)
        reached(i) == \A m \in 1..(i - 1) : ~answers[m].fault
    IN  IF \E i \in 1..Len(queries) : ~queries[i].has_query
        THEN [errors |-> <<"Web search failed">>,
              search_results |-> <<>>,
              current_stage |-> "relevance_evaluation"]
        ELSE LET all_results ==
                     ConcatAll([i \in 1..Len(queries) |->
                                   IF reached(i) THEN QueryResults(queries[i], answers[i])
                                   ELSE <<>>])
             IN  [search_results |-> Deduplicate(all_results),
                  current_stage |-> "relevance_evaluation"]

\* the urlopen calls of one execution: one per query of the first five, in
\* turn, up to an entry without a "query" key, whose KeyError ends the loop
SearchCalls(s) ==
    LET queries == Take(s.search_queries, QueryLimit)
        malformed == {i \in 1..Len(queries) : ~queries[i].has_query}
    IN  IF malformed = {} THEN Len(queries)
        ELSE (CHOOSE i \in malformed : \A j \in malformed : i <= j) - 1

\* answers[i] is the service's answer to the i-th of the first five queries
web_search_node(s, answers) ==
    LET queries == Take(s.search_queries, QueryLimit)
    IN  IF \E i \in 1..Len(queries) : ~queries[i].has_query
        THEN [errors |-> <<"Web search failed">>,
              search_results |-> <<>>,
              current_stage |-> "relevance_evaluation"]
        ELSE LET all_results ==
                     ConcatAll([i \in 1..Len(queries) |-> QueryResults(queries[i], answers[i])])
             IN  [search_results |-> Deduplicate(all_results),
                  current_stage |-> "relevance_evaluation"]

\* ---------------------------------------------------------------- relevance_evaluation
\* state["search_results"][:10] and related_works[:7]
EvalLimit == 10
SelectLimit == 7
\* relevance_score=0.5 of the fallback, in tenths
DefaultRelevance == 5

\* the inference service's answer for one candidate: a text without JSON, or a
\* JSON with a relevance_score, in tenths (1.5 is outside the field's range)
EvalResponses ==
    {[kind |-> "nojson", relevance_score |-> 0],
     [kind |-> "json", relevance_score |-> 9],
     [kind |-> "json", relevance_score |-> 15]}

\* one execution's inference calls for n candidates: get_llm or a call faults,
\* or every call is answered
EvalRuns(n) == [fault : BOOLEAN, evals : [1..n -> EvalResponses]]

RelatedWork(result, score, summary_type, focus_areas) ==
    [arxiv_id |-> result.arxiv_id,
     relevance_score |-> score,
     summary_type |-> summary_type,
     detailed_summary |-> None,
     focus_areas |-> focus_areas]

\* without a JSON object in the answer the candidate is left out; json.loads
\* raises on a malformed object ("badjson") and RelatedWork(...) raises when
\* relevance_score is outside [0, 1]: the except branch then includes the
\* candidate with the default relevance
EvaluatedWork(result, r) ==
    IF r.kind = "nojson" THEN <<>>
    ELSE IF r.kind = "json" /\ r.relevance_score >= 0 /\ r.relevance_score <= 10
         THEN <<RelatedWork(result, r.relevance_score, "detailed", <<"focus">>)>>
         ELSE <<RelatedWork(result, DefaultRelevance, "abstract", <<>>)>>

\* list.sort(key=relevance_score, reverse=True): stable, highest first
RECURSIVE InsertByRelevance(_, _)
InsertByRelevance(w, sorted) ==
    IF sorted = <<>> THEN <<w>>
    ELSE IF Head(sorted).relevance_score >= w.relevance_score
         THEN <<Head(sorted)>> \o InsertByRelevance(w, Tail(sorted))
         ELSE <<w>> \o sorted

RECURSIVE SortByRelevance(_)
SortByRelevance(works) ==
    IF works = <<>> THEN <<>>
    ELSE LET n == Len(works)
         IN  InsertByRelevance(works[n], SortByRelevance(SubSeq(works, 1, n - 1)))

\* mutant: the evaluated works are not sorted before the first seven are selected
relevance_evaluation_node_Unsorted(s, run) ==
    LET results == Take(s.search_results, EvalLimit)
        evals == run.evals
    IN  IF s.paper_metadata = None \/ run.fault
        THEN [errors |-> <<"Relevance evaluation failed">>,
              related_works |-> <<>>,
              selected_related_works |-> <<>>,
              current_stage |-> "summarization"]
        ELSE LET related_works ==
                     ConcatAll([i \in 1..Len(results) |-> EvaluatedWork(results[i], evals[i])])
             IN  [related_works |-> related_works,
                  selected_related_works |-> Take(related_works, SelectLimit),
                  current_stage |-> "summarization"]

\* mutant: the failure path leaves current_stage at the stage that failed
relevance_evaluation_node_StageKept(s, run) ==
    LET results == Take(s.search_results, EvalLimit)
        evals == run.evals
    IN  IF s.paper_metadata = None \/ run.fault
        THEN [errors |-> <<"Relevance evaluation failed">>,
              related_works |-> <<>>,
              selected_related_works |-> <<>>,
              current_stage |-> "relevance_evaluation"]
        ELSE LET related_works ==
                     SortByRelevance(ConcatAll([i \in 1..Len(results) |->
                                                   EvaluatedWork(results[i], evals[i])]))
             IN  [related_works |-> related_works,
                  selected_related_works |-> Take(related_works, SelectLimit),
                  current_stage |-> "summarization"]

\* run.evals[i] is the service's answer for the i-th of the first ten search results
relevance_evaluation_node(s, run) ==
    LET results == Take(s.search_results, EvalLimit)
        evals == run.evals
    IN  IF s.paper_metadata = None \/ run.fault
        THEN [errors |-> <<"Relevance evaluation failed">>,
              related_works |-> <<>>,
              selected_related_works |-> <<>>,
              current_stage |-> "summarization"]
        ELSE LET related_works ==
                     SortByRelevance(ConcatAll([i \in 1..Len(results) |->
                                                   EvaluatedWork(results[i], evals[i])]))
             IN  [related_works |-> related_works,
                  selected_related_works |-> Take(related_works, SelectLimit),
                  current_stage |-> "summarization"]

\* ---------------------------------------------------------------- summarization
NeedsDetail(work) == work.summary_type = "detailed" /\ work.focus_areas # <<>>

\* how the inference calls of one summarization go: all succeed, or the one
\* after `calls` successful calls faults (get_llm itself when there is none to make)
SummaryOutcomes(selected) ==
    LET k == Len(SelectSeq(selected, NeedsDetail))
    IN  {[fault |-> FALSE, calls |-> k]} \cup {[fault |-> TRUE, calls |-> c] : c \in 0..Max(k - 1, 0)}

\* the arxiv ids of the works whose detailed_summary was assigned
SummarizedIds(selected, outcome) ==
    {w.arxiv_id : w \in SeqToSet(Take(SelectSeq(selected, NeedsDetail), outcome.calls))}

\* work.detailed_summary = response.content, on the objects the lists hold
WithSummaries(works, ids) ==
    [i \in 1..Len(works) |->
        IF works[i].arxiv_id \in ids
        THEN [works[i] EXCEPT !.detailed_summary = Some("summary")]
        ELSE works[i]]

\* the works the node assigned to in place before it returned
summarization_effect(s, outcome) ==
    IF s.paper_metadata = None THEN {} ELSE SummarizedIds(s.selected_related_works, outcome)

summarization_node(s, outcome) ==
    IF s.paper_metadata = None \/ outcome.fault
    THEN [errors |-> <<"Summarization failed">>,
          current_stage |-> "review_generation"]
    ELSE [selected_related_works |->
              WithSummaries(s.selected_related_works,
                            SummarizedIds(s.selected_related_works, outcome)),
          current_stage |-> "review_generation"]

\* ---------------------------------------------------------------- review_generation
\* the inference service's answer: a fault, or the review text (possibly empty)
ReviewResponses ==
    {[fault |-> TRUE, content |-> ""],
     [fault |-> FALSE, content |-> "review"],
     [fault |-> FALSE, content |-> ""]}

\* mutant: the node has no try/except, and an inference fault leaves it as an
\* exception instead of a delta
review_generation_node_Unguarded(s, r) ==
    IF r.fault
    THEN [exception |-> "inference service unavailable"]
    ELSE [full_review |-> r.content,
          current_stage |-> "dimensional_scoring"]

review_generation_node(s, r) ==
    IF r.fault
    THEN [errors |-> <<"Review generation failed">>,
          current_stage |-> "dimensional_scoring"]
    ELSE [full_review |-> r.content,
          current_stage |-> "dimensional_scoring"]

\* ---------------------------------------------------------------- dimensional_scoring
\* the regression coefficients, times 10^4
INTERCEPT == -3057
COEF_SOUNDNESS == 7134
COEF_PRESENTATION == 4242
COEF_CONTRIBUTION == 10588
\* scores.get(name, 2.5), in tenths
DefaultDimension == 25
\* ReviewDimension.score: Field(ge=1, le=10), in tenths
ScoreMin == 10
ScoreMax == 100
\* max(1.0, min(10.0, final_score)), in units of 10^-5
FinalMin == 100000
FinalMax == 1000000

Dimension(name, score) == [name |-> name, score |-> score, justification |-> "j"]

\* the "dimensions" lists the inference service may answer with
DimensionLists ==
    {<<>>,
     <<Dimension("Soundness", 30), Dimension("Presentation", 30),
       Dimension("Contribution", 30), Dimension("Confidence", 40)>>,
     <<Dimension("Soundness", 40)>>,
     <<Dimension("Soundness", 110)>>}

ScoringResponses ==
    {[kind |-> k, dimensions |-> <<>>] : k \in {"fault", "nojson", "badjson"}}
    \cup [kind : {"json"}, dimensions : DimensionLists]

\* scores[dim.name] = dim.score for every dimension but Confidence: the last one wins
RECURSIVE ScoreOf(_, _, _)
ScoreOf(dimensions, name, default) ==
    IF dimensions = <<>> THEN default
    ELSE LET n == Len(dimensions)
         IN  IF dimensions[n].name = name THEN dimensions[n].score
             ELSE ScoreOf(SubSeq(dimensions, 1, n - 1), name, default)

\* mutant: the lower end of the clamp is 2.0
Clamp_From2(x) == Max(2 * FinalMin, Min(FinalMax, x))

Clamp(x) == Max(FinalMin, Min(FinalMax, x))

\* mutant: the result is not clamped
FinalScore_NoClamp(dimensions) ==
    LET soundness == ScoreOf(dimensions, "Soundness", DefaultDimension)
        presentation == ScoreOf(dimensions, "Presentation", DefaultDimension)
        contribution == ScoreOf(dimensions, "Contribution", DefaultDimension)
    IN  10 * INTERCEPT + COEF_SOUNDNESS * soundness
        + COEF_PRESENTATION * presentation + COEF_CONTRIBUTION * contribution

\* INTERCEPT + COEF_SOUNDNESS * soundness + ..., clamped; in units of 10^-5
FinalScore(dimensions) ==
    LET soundness == ScoreOf(dimensions, "Soundness", DefaultDimension)
        presentation == ScoreOf(dimensions, "Presentation", DefaultDimension)
        contribution == ScoreOf(dimensions, "Contribution", DefaultDimension)
    IN  Clamp(10 * INTERCEPT + COEF_SOUNDNESS * soundness
              + COEF_PRESENTATION * presentation + COEF_CONTRIBUTION * contribution)

ValidDimension(dim) == dim.score >= ScoreMin /\ dim.score <= ScoreMax

dimensional_scoring_node(s, r) ==
    IF r.kind \in {"fault", "badjson"}
       \/ (r.kind = "json" /\ \E i \in 1..Len(r.dimensions) : ~ValidDimension(r.dimensions[i]))
    THEN [errors |-> <<"Scoring failed">>,
          dimension_scores |-> <<>>,
          final_score |-> None,
          current_stage |-> "complete"]
    ELSE LET dimensions == IF r.kind = "json" THEN r.dimensions ELSE <<>>
         IN  [dimension_scores |-> dimensions,
              final_score |-> IF dimensions # <<>> THEN Some(FinalScore(dimensions)) ELSE None,
              current_stage |-> "complete"]

\* ---------------------------------------------------------------- reflection
\* len(selected_related_works) < 3
MinSelected == 3

\* mutant: only the zero-search-results check is made
reflection_node_NoFewWorks(s) ==
    [iteration_count |-> s.iteration_count + 1,
     needs_replanning |-> (s.search_results = <<>> /\ s.current_stage = "relevance_evaluation")]

\* mutant: the counter is raised once per heuristic that fired
reflection_node_CountPerHeuristic(s) ==
    LET few_works == Len(s.selected_related_works) < MinSelected
                     /\ s.current_stage = "summarization"
    IN  [iteration_count |-> s.iteration_count + (IF few_works THEN 1 ELSE 0),
         needs_replanning |-> few_works]

reflection_node(s) ==
    LET iteration == s.iteration_count + 1
        no_results == s.search_results = <<>> /\ s.current_stage = "relevance_evaluation"
        few_works == Len(s.selected_related_works) < MinSelected
                     /\ s.current_stage = "summarization"
    IN  [iteration_count |-> iteration,
         needs_replanning |-> (no_results \/ few_works)]

\* ---------------------------------------------------------------- conditional edges
\* iteration_count < 3
MaxIterations == 3

\* mutant: the gate looks at the metadata instead of validation_passed
route_after_validation_ByMetadata(s) ==
    IF s.paper_metadata # None THEN "search_query_generation" ELSE END

route_after_validation(s) ==
    IF s.validation_passed THEN "search_query_generation" ELSE END

\* mutant: the ceiling is compared with <=
route_after_reflection_OffByOne(s) ==
    IF s.needs_replanning /\ s.iteration_count <= MaxIterations
    THEN "search_query_generation"
    ELSE "continue"

\* mutant: the ceiling is reached one round early
route_after_reflection_CeilingShort(s) ==
    IF s.needs_replanning /\ s.iteration_count < MaxIterations - 1
    THEN "search_query_generation"
    ELSE "continue"

route_after_reflection(s) ==
    IF s.needs_replanning /\ s.iteration_count < MaxIterations
    THEN "search_query_generation"
    ELSE "continue"

\* ---------------------------------------------------------------- graph
Nodes ==
    {"pdf_to_markdown", "metadata_extraction", "search_query_generation", "web_search",
     "relevance_evaluation", "summarization", "review_generation", "dimensional_scoring",
     "reflection"}

\* mutant: the edge past the reflection gate was left in next to the gate
StaticEdges_FanOut ==
    {<<START, "pdf_to_markdown">>,
     <<"pdf_to_markdown", "metadata_extraction">>,
     <<"search_query_generation", "web_search">>,
     <<"web_search", "relevance_evaluation">>,
     <<"relevance_evaluation", "reflection">>,
     <<"relevance_evaluation", "summarization">>,
     <<"summarization", "review_generation">>,
     <<"review_generation", "dimensional_scoring">>,
     <<"dimensional_scoring", END>>}

\* the add_edge calls of create_paper_reviewer_graph
StaticEdges ==
    {<<START, "pdf_to_markdown">>,
     <<"pdf_to_markdown", "metadata_extraction">>,
     <<"search_query_generation", "web_search">>,
     <<"web_search", "relevance_evaluation">>,
     <<"relevance_evaluation", "reflection">>,
     <<"summarization", "review_generation">>,
     <<"review_generation", "dimensional_scoring">>,
     <<"dimensional_scoring", END>>}

\* mutant: replanning re-enters the graph at metadata_extraction
ConditionalTargets_ReplanFromMetadata(node, s) ==
    IF node = "metadata_extraction" THEN {route_after_validation(s)}
    ELSE IF node = "reflection"
    THEN {IF route_after_reflection(s) = "search_query_generation"
          THEN "metadata_extraction"
          ELSE "summarization"}
    ELSE {}

\* the add_conditional_edges calls: the node the router's answer is mapped to
ConditionalTargets(node, s) ==
    IF node = "metadata_extraction" THEN {route_after_validation(s)}
    ELSE IF node = "reflection"
    THEN {IF route_after_reflection(s) = "search_query_generation"
          THEN "search_query_generation"
          ELSE "summarization"}
    ELSE {}

\* every node the edges trigger once the delta of `node` is merged into state s
Successors(node, s) ==
    {e[2] : e \in {x \in StaticEdges : x[1] = node}} \cup ConditionalTargets(node, s)

\* mutant: an empty review text is retried at once
NextNode_RetryReview(node, s) ==
    IF node = "review_generation" /\ s.full_review = ""
    THEN "review_generation"
    ELSE CHOOSE n \in Successors(node, s) : TRUE

\* the node that follows `node` once its delta is merged into state s
NextNode(node, s) == CHOOSE n \in Successors(node, s) : TRUE

\* the state a node leaves behind before its delta is merged: selected_related_works
\* and related_works hold the same RelatedWork objects (selected = related_works[:7]),
\* so an assignment to work.detailed_summary shows in both lists
Snapshot(s, ids) ==
    [s EXCEPT !.selected_related_works = WithSummaries(@, ids),
              !.related_works = WithSummaries(@, ids)]

\* all_states.update(node_state) of run_review.review_paper: a plain dict update,
\* on a dict that holds the same RelatedWork objects as the state
Collect(collected, ids, d) ==
    [f \in DOMAIN collected \cup DOMAIN d |->
        IF f \in DOMAIN d THEN d[f]
        ELSE IF f \in {"selected_related_works", "related_works"}
             THEN WithSummaries(collected[f], ids)
             ELSE collected[f]]

\* one super-step: the node ran on the state, assigning in place to the works
\* `ids`; its delta d is merged, and the graph moves to the node the edges name
Advance(node, ids, d) ==
    /\ next = node
    /\ "errors" \in DOMAIN d => Len(state.errors) < MaxErrors
    /\ mutated' = ids
    /\ delta' = d
    /\ state' = Merge(Snapshot(state, ids), d)
    /\ trace' = Append(trace, node)
    /\ all_states' = Collect(all_states, ids, d)
    /\ next' = NextNode(node, state')
    /\ UNCHANGED <<runs, saver>>

Step(node, ids, d) == Advance(node, ids, d) /\ UNCHANGED search_calls

Init ==
    /\ state \in InitialStates
    /\ next = NextNode(START, state)
    /\ mutated = {}
    /\ delta = state
    /\ trace = <<>>
    /\ all_states = <<>>
    /\ runs = [c \in {} |-> <<>>]
    /\ saver = {}
    /\ search_calls = 0

PdfToMarkdown ==
    \E fs \in FileSystems : Step("pdf_to_markdown", {}, pdf_to_markdown_node(state, fs))

MetadataExtraction ==
    \E r \in MetaResponses : Step("metadata_extraction", {}, metadata_extraction_node(state, r))

SearchQueryGeneration ==
    \E r \in QueryResponses :
        /\ NoQueryKey \in SeqToSet(r.queries) => Len(state.errors) < MaxErrors
        /\ Step("search_query_generation", {}, search_query_generation_node(state, r))

WebSearch ==
    \E answers \in [1..Len(Take(state.search_queries, QueryLimit)) -> SearchAnswers] :
        Step("web_search", {}, web_search_node(state, answers))

RelevanceEvaluation ==
    \E run \in EvalRuns(Len(Take(state.search_results, EvalLimit))) :
        Step("relevance_evaluation", {}, relevance_evaluation_node(state, run))

Reflection ==
    Step("reflection", {}, reflection_node(state))

Summarization ==
    \E outcome \in SummaryOutcomes(state.selected_related_works) :
        Step("summarization", summarization_effect(state, outcome),
             summarization_node(state, outcome))

ReviewGeneration ==
    \E r \in ReviewResponses : Step("review_generation", {}, review_generation_node(state, r))

DimensionalScoring ==
    \E r \in ScoringResponses :
        Step("dimensional_scoring", {}, dimensional_scoring_node(state, r))

Next ==
    \/ PdfToMarkdown
    \/ MetadataExtraction
    \/ SearchQueryGeneration
    \/ WebSearch
    \/ RelevanceEvaluation
    \/ Reflection
    \/ Summarization
    \/ ReviewGeneration
    \/ DimensionalScoring

Spec == Init /\ [][Next]_vars

\* ---------------------------------------------------------------- runs without search results
\* the answers of a search service that finds nothing: a fault or an empty list
NoResultAnswers == {a \in SearchAnswers : a.ids = <<>>}

WebSearchNoResults ==
    \E answers \in [1..Len(Take(state.search_queries, QueryLimit)) -> NoResultAnswers] :
        Step("web_search", {}, web_search_node(state, answers))

NextNoResults ==
    \/ PdfToMarkdown
    \/ MetadataExtraction
    \/ SearchQueryGeneration
    \/ WebSearchNoResults
    \/ RelevanceEvaluation
    \/ Reflection
    \/ Summarization
    \/ ReviewGeneration
    \/ DimensionalScoring

\* graph.ainvoke / graph.astream run the graph until it reaches END
NoResultsSpec == Init /\ [][NextNoResults]_vars /\ WF_vars(NextNoResults)

\* ---------------------------------------------------------------- runs that reach the scorer
\* the stages before dimensional_scoring when no collaborator faults: the text
\* is extracted, the metadata are accepted, the fallback queries find three
\* papers, all three are selected and summarized, and a review text is written
Upstream ==
    \/ Step("pdf_to_markdown", {},
            pdf_to_markdown_node(state, [exists |-> TRUE, extract |-> "text"]))
    \/ Step("metadata_extraction", {},
            metadata_extraction_node(state, [kind |-> "json", is_academic_paper |-> "true"]))
    \/ Step("search_query_generation", {},
            search_query_generation_node(state, [kind |-> "nojson", queries |-> <<>>]))
    \/ Step("web_search", {},
            web_search_node(state, [i \in 1..Len(Take(state.search_queries, QueryLimit)) |->
                                       [fault |-> FALSE,
                                        ids |-> IF i = 1 THEN <<1, 2>> ELSE <<2, 3>>]]))
    \/ Step("relevance_evaluation", {},
            relevance_evaluation_node(state,
                [fault |-> FALSE,
                 evals |-> [i \in 1..Len(Take(state.search_results, EvalLimit)) |->
                               [kind |-> "json", relevance_score |-> 9]]]))
    \/ Step("reflection", {}, reflection_node(state))
    \/ \E outcome \in {o \in SummaryOutcomes(state.selected_related_works) : ~o.fault} :
            Step("summarization", summarization_effect(state, outcome),
                 summarization_node(state, outcome))
    \/ Step("review_generation", {},
            review_generation_node(state, [fault |-> FALSE, content |-> "review"]))

\* the scores the inference service may give a primary dimension, in tenths
\* (1, 2, 3, 4 and the largest that ReviewDimension accepts), or 0 for leaving it out
PrimaryScores == {0, 10, 20, 30, 40, 100}
\* likewise for Confidence
ConfidenceScores == {0, 20, 50}

DimensionsOf(soundness, presentation, contribution, confidence) ==
    SelectSeq(<<Dimension("Soundness", soundness), Dimension("Presentation", presentation),
                Dimension("Contribution", contribution), Dimension("Confidence", confidence)>>,
              LAMBDA dim : dim.score # 0)

\* the parsed answers of the scoring prompt: every choice of present dimensions
ParsedScorings ==
    {[kind |-> "json", dimensions |-> DimensionsOf(s, p, c, k)] :
        s \in PrimaryScores, p \in PrimaryScores, c \in PrimaryScores, k \in ConfidenceScores}

ScoreDimensions ==
    \E r \in ParsedScorings :
        Step("dimensional_scoring", {}, dimensional_scoring_node(state, r))

NextScoring == Upstream \/ ScoreDimensions

ScoringSpec == Init /\ [][NextScoring]_vars

\* ---------------------------------------------------------------- runs with long lists
\* query lists longer than the five entries web_search reads, one of them with
\* an entry that lacks its "query" key, and the empty list
LongQueryLists ==
    {[i \in 1..n |-> Query(QueryNames[i])] : n \in {0, QueryLimit, Len(QueryNames)}}
    \cup {[i \in 1..Len(QueryNames) |-> IF i = 4 THEN NoQueryKey ELSE Query(QueryNames[i])]}

\* "max_results": 5
PageSize == 5

\* the service's answer to the i-th query: its own page of arXiv ids
Page(i) == [fault |-> FALSE, ids |-> [j \in 1..PageSize |-> PageSize * (i - 1) + j]]

\* the answers to n queries: a query gets its page or faults; the answered
\* ones are the first k, or the last one alone
LongAnswers(n) ==
    {[i \in 1..n |-> IF i \in answered THEN Page(i) ELSE [fault |-> TRUE, ids |-> <<>>]] :
        answered \in {1..k : k \in 0..n} \cup {{n}}}

\* evaluations in a fixed rotation: scores of 0.3, 0.9, 1.5 (out of range), no
\* JSON, malformed JSON, 1.0 and 0.0
EvalCycle ==
    <<[kind |-> "json", relevance_score |-> 3],
      [kind |-> "json", relevance_score |-> 9],
      [kind |-> "json", relevance_score |-> 15],
      [kind |-> "nojson", relevance_score |-> 0],
      [kind |-> "badjson", relevance_score |-> 0],
      [kind |-> "json", relevance_score |-> 10],
      [kind |-> "json", relevance_score |-> 0]>>

\* one execution's inference calls for n candidates: a fault, or the rotation
\* started at its first or at its fourth entry, or 0.9 for every candidate
LongEvalRuns(n) ==
    {[fault |-> f,
      evals |-> [i \in 1..n |-> EvalCycle[((i - 1 + k) % Len(EvalCycle)) + 1]]] :
        f \in BOOLEAN, k \in {0, 3}}
    \cup {[fault |-> FALSE, evals |-> [i \in 1..n |-> EvalCycle[2]]]}

GenerateLongList ==
    \E r \in {[kind |-> "fault", queries |-> <<>>]} \cup [kind : {"json"}, queries : LongQueryLists] :
        Step("search_query_generation", {}, search_query_generation_node(state, r))

\* web_search, with its requests to the search service counted
CountedWebSearch ==
    \E answers \in LongAnswers(Len(Take(state.search_queries, QueryLimit))) :
        /\ Advance("web_search", {}, web_search_node(state, answers))
        /\ search_calls' = search_calls + SearchCalls(state)

EvaluateLongList ==
    \E run \in LongEvalRuns(Len(Take(state.search_results, EvalLimit))) :
        Step("relevance_evaluation", {}, relevance_evaluation_node(state, run))

NextLongLists ==
    \/ Step("pdf_to_markdown", {},
            pdf_to_markdown_node(state, [exists |-> TRUE, extract |-> "text"]))
    \/ Step("metadata_extraction", {},
            metadata_extraction_node(state, [kind |-> "json", is_academic_paper |-> "true"]))
    \/ GenerateLongList
    \/ CountedWebSearch
    \/ EvaluateLongList
    \/ Reflection
    \/ Summarization
    \/ Step("review_generation", {},
            review_generation_node(state, [fault |-> FALSE, content |-> "review"]))
    \/ Step("dimensional_scoring", {},
            dimensional_scoring_node(state, [kind |-> "json",
                                             dimensions |-> DimensionsOf(30, 30, 30, 40)]))

LongListsSpec == Init /\ [][NextLongLists]_vars

\* ---------------------------------------------------------------- calls on one reviewer
\* the review_paper calls made on one AgenticPaperReviewer, whose graph and
\* MemorySaver they share; they may overlap in time
Calls == {1, 2}

\* the first call passes a path, the second a content
Input(c) ==
    IF c = 1 THEN initial_state("paper.pdf", "", "pdf_to_markdown")
    ELSE initial_state("", "md", "metadata_extraction")

\* mutant: the thread id is the same for every call
ThreadId_Shared(c) == <<"review", 0>>

\* thread_id or f"review_{datetime.now().isoformat()}": one id per call
ThreadId(c) == <<"review", c>>

\* the checkpoints stored under a thread id, and the newest of them
Lineage(store, thread_id) == {cp \in store : cp.thread_id = thread_id}
Latest(store, thread_id) ==
    CHOOSE cp \in Lineage(store, thread_id) :
        \A other \in Lineage(store, thread_id) : other.seq <= cp.seq

\* mutant: the saver keeps only the newest checkpoint of a thread
Put_LatestOnly(store, thread_id, seq, values) ==
    {cp \in store : cp.thread_id # thread_id}
    \cup {[thread_id |-> thread_id, seq |-> seq, values |-> values]}

\* checkpointer=memory: storage[thread_id][checkpoint_id] = the snapshot
Put(store, thread_id, seq, values) ==
    {cp \in store : ~(cp.thread_id = thread_id /\ cp.seq = seq)}
    \cup {[thread_id |-> thread_id, seq |-> seq, values |-> values]}

\* what a node may return in these runs: the extraction works or faults, the
\* document is accepted or rejected, the fallback queries find three papers
\* that are all selected, and the review call answers or faults
Outcomes(node, s) ==
    CASE node = "pdf_to_markdown" ->
            {<<{}, pdf_to_markdown_node(s, [exists |-> TRUE, extract |-> x])>> :
                x \in {"text", "fault"}}
      [] node = "metadata_extraction" ->
            {<<{}, metadata_extraction_node(s, [kind |-> "json", is_academic_paper |-> a])>> :
                a \in {"true", "false"}}
      [] node = "search_query_generation" ->
            {<<{}, search_query_generation_node(s, [kind |-> "nojson", queries |-> <<>>])>>}
      [] node = "web_search" ->
            {<<{}, web_search_node(s, [i \in 1..Len(Take(s.search_queries, QueryLimit)) |->
                                         [fault |-> FALSE,
                                          ids |-> IF i = 1 THEN <<1, 2>> ELSE <<2, 3>>]])>>}
      [] node = "relevance_evaluation" ->
            {<<{}, relevance_evaluation_node(s,
                      [fault |-> FALSE,
                       evals |-> [i \in 1..Len(Take(s.search_results, EvalLimit)) |->
                                     [kind |-> "json", relevance_score |-> 9]]])>>}
      [] node = "reflection" -> {<<{}, reflection_node(s)>>}
      [] node = "summarization" ->
            {<<summarization_effect(s, o), summarization_node(s, o)>> :
                o \in {o \in SummaryOutcomes(s.selected_related_works) : ~o.fault}}
      [] node = "review_generation" ->
            {<<{}, review_generation_node(s, r)>> :
                r \in {[fault |-> FALSE, content |-> "review"], [fault |-> TRUE, content |-> ""]}}
      [] node = "dimensional_scoring" ->
            {<<{}, dimensional_scoring_node(s, [kind |-> "json",
                                                dimensions |-> DimensionsOf(30, 30, 30, 40)])>>}

\* graph.ainvoke(initial_state, config): the input is written onto the newest
\* checkpoint of the thread if there is one, and the result is checkpointed
StartCall(c) ==
    LET thread_id == ThreadId(c)
        resumed == Lineage(saver, thread_id) # {}
        first == IF resumed THEN Merge(Latest(saver, thread_id).values, Input(c)) ELSE Input(c)
        seq == IF resumed THEN Latest(saver, thread_id).seq + 1 ELSE 1
    IN  /\ runs[c].next = START
        /\ runs' = [runs EXCEPT ![c] = [state |-> first,
                                        next |-> NextNode(START, first),
                                        seq |-> seq]]
        /\ saver' = Put(saver, thread_id, seq, first)
        /\ UNCHANGED <<state, next, mutated, delta, trace, all_states, search_calls>>

\* one super-step of call c: the node runs on the call's state, its delta is
\* merged, and the merged state is checkpointed under the call's thread id
StepCall(c) ==
    /\ runs[c].next \in Nodes
    /\ \E o \in Outcomes(runs[c].next, runs[c].state) :
        LET merged == Merge(Snapshot(runs[c].state, o[1]), o[2])
        IN  /\ runs' = [runs EXCEPT ![c] = [state |-> merged,
                                            next |-> NextNode(runs[c].next, merged),
                                            seq |-> runs[c].seq + 1]]
            /\ saver' = Put(saver, ThreadId(c), runs[c].seq + 1, merged)
    /\ UNCHANGED <<state, next, mutated, delta, trace, all_states, search_calls>>

NextCalls == \E c \in Calls : StartCall(c) \/ StepCall(c)

InitCalls ==
    /\ state = initial_state("paper.pdf", "", "pdf_to_markdown")
    /\ next = NextNode(START, state)
    /\ mutated = {}
    /\ delta = state
    /\ trace = <<>>
    /\ all_states = <<>>
    /\ runs = [c \in Calls |-> [state |-> Input(c), next |-> START, seq |-> 0]]
    /\ saver = {}
    /\ search_calls = 0

CallsSpec == InitCalls /\ [][NextCalls]_vars

\* ---------------------------------------------------------------- results
\* dict.get(key, default)
Get(d, f, default) == IF f \in DOMAIN d THEN d[f] ELSE default

\* AgenticPaperReviewer._format_output: the result built from the final state
format_output(s) ==
    [status |-> IF s.full_review # "" THEN "complete" ELSE "failed",
     review |-> s.full_review,
     final_score |-> s.final_score,
     related_works |-> s.selected_related_works,
     iterations |-> s.iteration_count,
     errors |-> s.errors]

\* run_review.review_paper: the result built from the collected dict
run_review_result(final_state) ==
    [status |-> IF Get(final_state, "errors", <<>>) = <<>> THEN "complete" ELSE "failed",
     review |-> Get(final_state, "full_review", ""),
     final_score |-> Get(final_state, "final_score", None),
     errors |-> Get(final_state, "errors", <<>>)]

\* ---------------------------------------------------------------- properties
Executed(node) == \E i \in 1..Len(trace) : trace[i] = node

LastNode == IF trace = <<>> THEN START ELSE trace[Len(trace)]

\* the nodes that follow the validation gate
Downstream ==
    {"search_query_generation", "web_search", "relevance_evaluation", "reflection",
     "summarization", "review_generation", "dimensional_scoring"}

\* the trace with the node that runs next: every edge the run has taken
Path == Append(trace, next)

\* how often the reflection gate sent the run back to search_query_generation
Replans ==
    Cardinality({i \in 1..(Len(Path) - 1) :
                    Path[i] = "reflection" /\ Path[i + 1] = "search_query_generation"})

\* the last node returned a failure: its delta carries error entries
LastFailed == trace # <<>> /\ "errors" \in DOMAIN delta

\* C1: once metadata_extraction has left validation_passed false, the run is at
\* its terminal state and none of the stages after the gate has been executed.
C1_ValidationGateStops ==
    (Executed("metadata_extraction") /\ ~state.validation_passed)
        => (next = END /\ SeqToSet(trace) \cap Downstream = {})

C1_Witness ==
    /\ LastNode = "metadata_extraction"
    /\ ~state.validation_passed
    /\ state.paper_metadata # None
    /\ next = END

\* C2: whenever a stage reports a failure, its message is at the end of the
\* error list and the run is terminal-failed: no further stage is executed.
C2_FailureTerminates ==
    LastFailed => (IsSuffix(delta.errors, state.errors) /\ next = END)

C4_ReflectionGate ==
    LastNode = "reflection" =>
        LET replan == (state.search_results = <<>>
                       \/ Len(state.selected_related_works) < 3)
                      /\ state.iteration_count < 3
        IN  next = IF replan THEN "search_query_generation" ELSE "summarization"

\* replanning requested with results at hand, and refused at the ceiling
C4_Witness ==
    /\ LastNode = "reflection"
    /\ state.iteration_count = 3
    /\ state.search_results # <<>>
    /\ Len(state.selected_related_works) < 3
    /\ next = "summarization"
    /\ Replans = 2

\* C5: iteration_count increases by exactly one on each execution of
\* reflection, whether or not a heuristic fired, and no other stage changes it.
C5_CounterStepsWithReflection ==
    [][state'.iteration_count =
          state.iteration_count + (IF next = "reflection" THEN 1 ELSE 0)]_vars

\* reflection counted an evaluation in which no heuristic fired
C5_Witness ==
    /\ LastNode = "reflection"
    /\ ~state.needs_replanning
    /\ state.iteration_count = 2

\* C6: in a run the reflection gate routes back to search_query_generation at
\* most 3 times, and iteration_count never exceeds 3.
C6_ReplanningBounded ==
    Replans <= 3 /\ state.iteration_count <= 3

C6_Witness ==
    /\ state.iteration_count = 3
    /\ state.needs_replanning
    /\ Replans = 2
    /\ next = END

\* C7: the error list before a stage merge is a prefix of the error list after
\* it: it never gets shorter and no earlier entry is cleared or rewritten.
C7_ErrorsAppendOnly ==
    [][IsPrefix(state.errors, state'.errors)]_vars

\* a second entry was appended behind the first
C7_Witness ==
    /\ LastFailed
    /\ Len(state.errors) = 2
    /\ state.errors[1] # state.errors[2]

\* C8: merging a delta sets every non-error field the delta names to the
\* delta's value, leaves every field it does not name as the node left it, and
\* appends the delta's error entries, in order, to the end of the error list.
C8_MergePolicy ==
    [][LET snapshot == Snapshot(state, mutated')
       IN  \A f \in Fields :
              IF f \notin DOMAIN delta' THEN state'[f] = snapshot[f]
              ELSE IF f = "errors"
                   THEN /\ Len(state'.errors) = Len(snapshot.errors) + Len(delta'.errors)
                        /\ IsPrefix(snapshot.errors, state'.errors)
                        /\ IsSuffix(delta'.errors, state'.errors)
                   ELSE state'[f] = delta'[f]]_vars

\* a failure delta merged into a state that holds an error and search results
C8_Witness ==
    /\ LastFailed
    /\ Len(state.errors) = 2
    /\ "search_results" \notin DOMAIN delta
    /\ state.search_results # <<>>

\* C9: merging the delta a node returned a second time leaves every non-error
\* field as the first merge left it, and lengthens the error list by the
\* delta's n entries once more: by 2n over the list before the first merge.
C9_MergeTwice ==
    [][LET once == state'
           twice == Merge(state', delta')
           n == IF "errors" \in DOMAIN delta' THEN Len(delta'.errors) ELSE 0
       IN  /\ once = Merge(Snapshot(state, mutated'), delta')
           /\ [twice EXCEPT !.errors = <<>>] = [once EXCEPT !.errors = <<>>]
           /\ Len(twice.errors) = Len(state.errors) + 2 * n
           /\ n > 0 => twice.errors # once.errors]_vars

\* a delta with an error entry was merged behind an equal entry of an earlier round
C9_Witness ==
    /\ LastFailed
    /\ Len(delta.errors) = 1
    /\ Len(state.errors) = 2
    /\ state.errors[1] = state.errors[2]

\* C10: whenever a run ends with current_stage = "complete" after
\* dimensional_scoring, full_review is non-empty and dimension_scores and
\* final_score are populated.
C10_CompleteIsPopulated ==
    (LastNode = "dimensional_scoring" /\ state.current_stage = "complete")
        => (/\ state.full_review # ""
            /\ state.dimension_scores # <<>>
            /\ state.final_score # None)

\* the graph has reached END: the run is finished
Finished == next = END

\* C11: for a finished run both result builders report "failed" exactly when
\* the run's error list is non-empty and "complete" otherwise, so they agree
C11_StatusFollowsErrors ==
    Finished =>
        /\ run_review_result(all_states).status = "failed" <=> state.errors # <<>>
        /\ format_output(state).status = "failed" <=> state.errors # <<>>
        /\ run_review_result(all_states).status = format_output(state).status

\* the metadata were extracted and say the document is not an academic paper
Rejected ==
    /\ state.paper_metadata # None
    /\ ~state.paper_metadata[1].is_academic_paper

\* C12: a finished run on a document judged not a valid subject has
\* validation_passed false, no selected related work, no final score, and
\* both result builders report it as failed
C12_RejectedRunOutcome ==
    (Finished /\ Rejected) =>
        /\ state.validation_passed = FALSE
        /\ state.selected_related_works = <<>>
        /\ format_output(state).related_works = <<>>
        /\ state.final_score = None
        /\ format_output(state).final_score = None
        /\ format_output(state).status = "failed"
        /\ run_review_result(all_states).status = "failed"
        /\ run_review_result(all_states).final_score = None

C12_Witness ==
    /\ Finished
    /\ Rejected
    /\ LastNode = "metadata_extraction"
    /\ format_output(state).status = "failed"

\* how often the node has been executed
Times(node) == Cardinality({i \in 1..Len(trace) : trace[i] = node})

\* C13: in a run whose every web_search returns zero results, the first
\* reflection sets iteration_count to 1 and routes back to
\* search_query_generation; summarization is only entered with
\* iteration_count = 3 and an empty selected_related_works; and a run that
\* passed the validation gate eventually finishes after summarization,
\* review_generation and dimensional_scoring
C13_NoResultsRun ==
    /\ []((LastNode = "reflection" /\ Times("reflection") = 1)
            => (state.iteration_count = 1 /\ next = "search_query_generation"))
    /\ []((next = "summarization" \/ Executed("summarization"))
            => (state.iteration_count = MaxIterations /\ state.selected_related_works = <<>>))
    /\ (state.validation_passed
            ~> (/\ Finished
                /\ LastNode = "dimensional_scoring"
                /\ Executed("summarization")
                /\ Executed("review_generation")))

C13_Witness ==
    /\ Finished
    /\ LastNode = "dimensional_scoring"
    /\ Times("web_search") = MaxIterations
    /\ state.search_results = <<>>
    /\ state.selected_related_works = <<>>
    /\ state.iteration_count = MaxIterations

\* every entry among the queries web_search uses has its "query" key
WellFormedQueries ==
    \A i \in 1..Len(Take(state.search_queries, QueryLimit)) :
        Take(state.search_queries, QueryLimit)[i].has_query

\* web_search has just run on well-formed queries and found nothing
EmptySearch ==
    /\ LastNode = "web_search"
    /\ WellFormedQueries
    /\ state.search_results = <<>>

\* C14: a web_search whose queries all fault or return nothing returns the
\* success delta with search_results = [] and no error entry; the run does not
\* end there: relevance_evaluation and then reflection run after every
\* web_search, a run whose last search found nothing always has a step to take
\* until END, and after a web_search END is only reached from dimensional_scoring
C14_EmptySearchContinues ==
    /\ (next = "web_search" /\ WellFormedQueries) =>
            \A answers \in [1..Len(Take(state.search_queries, QueryLimit)) -> NoResultAnswers] :
                web_search_node(state, answers) =
                    [search_results |-> <<>>, current_stage |-> "relevance_evaluation"]
    /\ EmptySearch =>
            /\ "errors" \notin DOMAIN delta
            /\ delta.search_results = <<>>
            /\ next = "relevance_evaluation"
    /\ LastNode = "relevance_evaluation" => next = "reflection"
    /\ (Executed("web_search") /\ state.search_results = <<>> /\ ~Finished) => ENABLED Next
    /\ (Finished /\ Executed("web_search")) =>
            /\ LastNode = "dimensional_scoring"
            /\ Times("relevance_evaluation") = Times("web_search")
            /\ Times("reflection") = Times("web_search")

C14_Witness ==
    /\ Finished
    /\ LastNode = "dimensional_scoring"
    /\ state.search_queries # <<>>
    /\ WellFormedQueries
    /\ state.search_results = <<>>
    /\ state.errors = <<>>

\* the i-th executed node was reflection and its gate requested replanning
ReplanAt(i) == Path[i] = "reflection" /\ Path[i + 1] = "search_query_generation"

ScoredAs(dimensions, name) ==
    LET at == {i \in DOMAIN dimensions : dimensions[i].name = name}
    IN  IF at = {} THEN 25 ELSE dimensions[CHOOSE i \in at : TRUE].score

\* -0.3057 + 0.7134 s + 0.4242 p + 1.0588 c clamped into [1, 10], in units of 10^-5
ClaimedScore(s, p, c) ==
    LET raw == -30570 + 7134 * s + 4242 * p + 10588 * c
    IN  IF raw < 100000 THEN 100000 ELSE IF raw > 1000000 THEN 1000000 ELSE raw

\* dimensional_scoring has run and produced a final score
Scored == LastNode = "dimensional_scoring" /\ state.final_score # None

\* C16: a final score that dimensional_scoring produces is the affine formula of
\* the Soundness, Presentation and Contribution scores clamped into [1, 10]
\* (6.2835 for 3, 3, 3), lies in [1, 10], and two answers that give the three
\* dimensions the same scores get the same final score whatever their Confidence
C16_FinalScoreFormula ==
    /\ Scored =>
        LET dimensions == state.dimension_scores
            final_score == state.final_score[1]
            soundness == ScoredAs(dimensions, "Soundness")
            presentation == ScoredAs(dimensions, "Presentation")
            contribution == ScoredAs(dimensions, "Contribution")
        IN  /\ final_score = ClaimedScore(soundness, presentation, contribution)
            /\ final_score >= 100000 /\ final_score <= 1000000
            /\ (soundness = 30 /\ presentation = 30 /\ contribution = 30)
                    => final_score = 628350
    /\ next = "dimensional_scoring" =>
        \A r1, r2 \in ParsedScorings :
            LET d1 == dimensional_scoring_node(state, r1)
                d2 == dimensional_scoring_node(state, r2)
            IN  (/\ d1.final_score # None
                 /\ d2.final_score # None
                 /\ \A name \in {"Soundness", "Presentation", "Contribution"} :
                        ScoredAs(r1.dimensions, name) = ScoredAs(r2.dimensions, name))
                => d1.final_score = d2.final_score

C16_Witness ==
    /\ Scored
    /\ state.dimension_scores = DimensionsOf(30, 30, 30, 50)
    /\ state.final_score = Some(628350)

\* C17: whichever of Soundness, Presentation and Contribution the parsed
\* dimension list lacks, all three included, dimensional_scoring takes 2.5 for
\* each missing one and produces a numeric final score, with no error entry
C17_MissingDimensionsDefault ==
    LastNode = "dimensional_scoring" =>
        /\ "errors" \notin DOMAIN delta
        /\ state.errors = <<>>
        /\ state.final_score # None
        /\ state.final_score =
                Some(ClaimedScore(ScoredAs(state.dimension_scores, "Soundness"),
                                  ScoredAs(state.dimension_scores, "Presentation"),
                                  ScoredAs(state.dimension_scores, "Contribution")))

\* the queries web_search uses, and the answer functions the service may give them
Queries == Take(state.search_queries, QueryLimit)
AnswersToQueries == [1..Len(Queries) -> SearchAnswers]

\* query i was sent to the service: no entry up to it lacks its "query" key
Asked(i) == \A m \in 1..i : Queries[m].has_query

\* the entries read from the service, in the order of the queries
EntriesRead(answers) ==
    ConcatAll([i \in 1..Len(Queries) |->
                  IF Asked(i)
                  THEN [j \in 1..Len(answers[i].ids) |->
                           [arxiv_id |-> answers[i].ids[j], query_source |-> Queries[i]]]
                  ELSE <<>>])

\* the index of the first entry with the id
FirstOccurrence(entries, id) ==
    CHOOSE m \in DOMAIN entries :
        /\ entries[m].arxiv_id = id
        /\ \A n \in 1..(m - 1) : entries[n].arxiv_id # id

\* search_results has no arxiv_id twice, holds every id a successfully answered
\* query returned, and holds each id's first entry at the rank of that entry
\* among the first entries
MergedFirstOccurrences(answers, results) ==
    LET entries == EntriesRead(answers)
    IN  /\ \A i, j \in DOMAIN results : i # j => results[i].arxiv_id # results[j].arxiv_id
        /\ \A i \in 1..Len(Queries) :
            (Asked(i) /\ ~answers[i].fault) =>
                \A id \in SeqToSet(answers[i].ids) :
                    Cardinality({j \in DOMAIN results : results[j].arxiv_id = id}) = 1
        /\ \A j \in DOMAIN results :
            /\ \E m \in DOMAIN entries : entries[m].arxiv_id = results[j].arxiv_id
            /\ LET m == FirstOccurrence(entries, results[j].arxiv_id)
               IN  /\ results[j] = entries[m]
                   /\ j = Cardinality({entries[n].arxiv_id : n \in 1..m})

\* C18 as worded: after every web_search, whatever the service answered,
\* search_results has no arxiv_id twice and holds every id that a successfully
\* answered query returned exactly once, at the position of its first occurrence
C18_EveryExecutionMerges ==
    next = "web_search" =>
        \A answers \in AnswersToQueries :
            MergedFirstOccurrences(answers, web_search_node(state, answers).search_results)

\* C18: after every web_search that returns a success delta, search_results has
\* no arxiv_id twice and holds every id that a successfully answered query
\* returned exactly once, at the position of its first occurrence; a web_search
\* that fails returns an empty search_results
C18_SuccessfulSearchMerges ==
    next = "web_search" =>
        \A answers \in AnswersToQueries :
            LET d == web_search_node(state, answers)
            IN  IF "errors" \in DOMAIN d
                THEN d.search_results = <<>>
                ELSE MergedFirstOccurrences(answers, d.search_results)

C18_Witness ==
    /\ LastNode = "web_search"
    /\ Len(state.search_queries) = 2
    /\ "errors" \notin DOMAIN delta
    /\ [i \in 1..Len(state.search_results) |-> state.search_results[i].arxiv_id] = <<1, 2, 3>>
    /\ state.search_results[2].query_source = state.search_queries[1]

\* the orders in which n queries can be issued
Orders(n) == {p \in [1..n -> 1..n] : \A i, j \in 1..n : i # j => p[i] # p[j]}

\* search_results of a web_search that issues the queries in the order p, each
\* query getting the answer it gets in the order of the state
ResultsInOrder(answers, p) ==
    web_search_node([state EXCEPT !.search_queries = [i \in 1..Len(Queries) |-> Queries[p[i]]]],
                    [i \in 1..Len(Queries) |-> answers[p[i]]]).search_results

\* C19 as worded: whatever the order of the queries, the same per-query result
\* lists merge into the same set of entries, contents included
C19_SameEntriesInAnyOrder ==
    (next = "web_search" /\ WellFormedQueries) =>
        \A answers \in AnswersToQueries : \A p \in Orders(Len(Queries)) :
            SeqToSet(ResultsInOrder(answers, p))
                = SeqToSet(web_search_node(state, answers).search_results)

\* C19: whatever the order of the queries, the same per-query result lists
\* merge into entries with the same set of arxiv ids, one entry per id, and
\* each entry names as query_source a query that returned its id
C19_SameIdsInAnyOrder ==
    (next = "web_search" /\ WellFormedQueries) =>
        \A answers \in AnswersToQueries : \A p \in Orders(Len(Queries)) :
            LET merged == ResultsInOrder(answers, p)
                ids == {e.arxiv_id : e \in SeqToSet(merged)}
            IN  /\ ids = {e.arxiv_id :
                            e \in SeqToSet(web_search_node(state, answers).search_results)}
                /\ Cardinality(ids) = Len(merged)
                /\ \A e \in SeqToSet(merged) :
                    \E i \in 1..Len(Queries) :
                        /\ e.query_source = Queries[i]
                        /\ e.arxiv_id \in SeqToSet(answers[i].ids)

C19_Witness ==
    /\ LastNode = "web_search"
    /\ Len(state.search_queries) = 2
    /\ "errors" \notin DOMAIN delta
    /\ [i \in 1..Len(state.search_results) |-> state.search_results[i].arxiv_id] = <<2, 3, 1>>
    /\ state.search_results[1].query_source = state.search_queries[1]

\* C20: every merge triggers exactly one node, the one that runs next, so no
\* two stages run at the same time; and the state that node observes holds the
\* whole delta of the stage before it: every field of the delta has the delta's
\* value and the error list ends with the delta's entries
C20_OneStageOnMergedState ==
    /\ Successors(LastNode, state) = {next}
    /\ trace # <<>> =>
        /\ \A f \in DOMAIN delta \ {"errors"} : state[f] = delta[f]
        /\ "errors" \in DOMAIN delta => IsSuffix(delta.errors, state.errors)

C20_Witness ==
    /\ next = "summarization"
    /\ LastNode = "reflection"
    /\ state.iteration_count = 1
    /\ delta = [iteration_count |-> 1, needs_replanning |-> FALSE]
    /\ Len(state.selected_related_works) = MinSelected

\* the checkpoint with the sequence number in the lineage of a call
CheckpointAt(c, n) == CHOOSE cp \in Lineage(saver, ThreadId(c)) : cp.seq = n

\* the values of one checkpoint follow from those of the one before by one
\* node execution on them alone
SoloStep(before, after) ==
    \E node \in Nodes : \E o \in Outcomes(node, before) :
        after = Merge(Snapshot(before, o[1]), o[2])

\* C21: however two calls with distinct thread ids interleave, the checkpoints
\* under a call's thread id are exactly those of that call executed alone from
\* its own input, one per step, and the call's state is the newest of them:
\* nothing of the other call appears in its state or lineage
C21_CallsIsolated ==
    \A c \in Calls :
        runs[c].next # START =>
            LET lineage == Lineage(saver, ThreadId(c))
            IN  /\ Cardinality(lineage) = runs[c].seq
                /\ {cp.seq : cp \in lineage} = 1..runs[c].seq
                /\ CheckpointAt(c, 1).values = Input(c)
                /\ CheckpointAt(c, runs[c].seq).values = runs[c].state
                /\ \A n \in 1..(runs[c].seq - 1) :
                    SoloStep(CheckpointAt(c, n).values, CheckpointAt(c, n + 1).values)

C21_Witness ==
    /\ runs[1].next = END
    /\ runs[2].next = END
    /\ Len(runs[1].state.errors) = 2
    /\ runs[2].state.errors = <<>>
    /\ runs[2].state.full_review = "review"

C23_OneErrorOneIncrement ==
    [][LET rerun == Merge(state', delta')
           added == Len(state'.errors) - Len(state.errors)
           raised == state'.iteration_count - state.iteration_count
       IN  /\ added \in {0, 1}
           /\ IsPrefix(state.errors, state'.errors)
           /\ raised \in {0, 1}
           /\ raised = 1 <=> LastNode' = "reflection"
           /\ Len(rerun.errors) - Len(state'.errors) = added
           /\ rerun.iteration_count = state'.iteration_count]_vars

C23_Witness ==
    /\ LastNode = "reflection"
    /\ state.iteration_count = 2
    /\ Len(state.errors) = 2
    /\ trace[Len(trace) - 1] = "relevance_evaluation"
    /\ state.related_works = <<>>

\* what the orchestrator can merge: a partial state update whose errors, if any,
\* are a non-empty list of messages
IsDelta(d) ==
    /\ DOMAIN d # {}
    /\ DOMAIN d \subseteq Fields
    /\ "errors" \in DOMAIN d => d.errors # <<>> /\ \A i \in 1..Len(d.errors) : d.errors[i] \in STRING

\* C24: whatever the collaborators answered (extraction fault, inference fault,
\* unparseable or misshapen response, search fault), the stage that ran last
\* returned a delta, with or without an error message, that the orchestrator
\* merged, and the run went on to the node the edges name: no exception escaped
C24_StagesReturnDeltas ==
    trace # <<>> =>
        /\ IsDelta(delta)
        /\ \A f \in DOMAIN delta \ {"errors"} : state[f] = delta[f]
        /\ LastFailed => IsSuffix(delta.errors, state.errors)
        /\ LastFailed => delta.errors[1] \in
              {"PDF conversion failed", "Metadata extraction failed",
               "Document does not appear to be an academic paper",
               "Query generation failed", "Web search failed",
               "Relevance evaluation failed", "Summarization failed",
               "Review generation failed", "Scoring failed"}
        /\ next \in Nodes \cup {END}

C24_Witness ==
    /\ Finished
    /\ LastNode = "dimensional_scoring"
    /\ LastFailed
    /\ Len(state.errors) = MaxErrors
    /\ state.errors[1] = "Web search failed"

\* C25: a stage changes the state only through its delta: every field the
\* delta does not name is after the step what it was before it; so when
\* summarization fails part-way, selected_related_works and related_works are
\* as they were before the stage ran and only errors and current_stage change
C25_EffectsOnlyThroughDelta ==
    [][/\ \A f \in Fields \ DOMAIN delta' : state'[f] = state[f]
       /\ (LastNode' = "summarization" /\ LastFailed') =>
              /\ DOMAIN delta' = {"errors", "current_stage"}
              /\ state'.selected_related_works = state.selected_related_works
              /\ state'.related_works = state.related_works]_vars

\* C26: the error list in the result of a finished run is the run's whole
\* error list, every entry any stage emitted in the order of execution (the
\* canonical errors, which the reducer only ever appends to), and the result
\* carries the review text the run produced
C26_ResultCarriesAllErrors ==
    Finished =>
        /\ format_output(state).errors = state.errors
        /\ format_output(state).review = state.full_review
        /\ run_review_result(all_states).errors = state.errors
        /\ run_review_result(all_states).review = state.full_review

\* the nodes of the replanning loop, and the others
LoopNodes == {"search_query_generation", "web_search", "relevance_evaluation", "reflection"}

\* C27: a run executes at most 17 stages (each loop node at most 3 times, every
\* other node at most once), and as long as it has not reached END a stage is
\* ready to run: with every stage invocation returning, the run reaches END
C27_TerminatesWithin17 ==
    /\ Len(trace) <= 17
    /\ \A node \in LoopNodes : Times(node) <= MaxIterations
    /\ \A node \in Nodes \ LoopNodes : Times(node) <= 1
    /\ Finished \/ (next \in Nodes /\ ENABLED Next)

C27_Witness ==
    /\ Finished
    /\ Len(trace) = 17
    /\ \A node \in LoopNodes : Times(node) = MaxIterations
    /\ state.final_score # None

\* C28: when reflection is about to execute, current_stage is "summarization",
\* the value relevance_evaluation wrote, whether it succeeded or failed, and
\* reflection's check for zero search results does not apply; after it has
\* executed, needs_replanning is true exactly when selected_related_works has
\* fewer than 3 entries
C28_ReflectionSeesSummarization ==
    /\ next = "reflection" =>
          /\ LastNode = "relevance_evaluation"
          /\ state.current_stage = "summarization"
          /\ delta.current_stage = "summarization"
          /\ ~(state.search_results = <<>> /\ state.current_stage = "relevance_evaluation")
    /\ LastNode = "reflection" =>
          /\ state.current_stage = "summarization"
          /\ state.needs_replanning <=> Len(state.selected_related_works) < 3

C28_Witness ==
    /\ LastNode = "reflection"
    /\ state.search_results = <<>>
    /\ state.needs_replanning
    /\ trace[Len(trace) - 1] = "relevance_evaluation"
    /\ Len(state.errors) = 1
    /\ state.errors[1] = "Relevance evaluation failed"

\* C29: one web_search execution sends at most 5 requests to the search
\* service, one for each of the first 5 entries of search_queries and none for
\* a later entry, and a run sends at most 15 in all its replanning rounds
C29_SearchCallsBounded ==
    /\ search_calls <= 15
    /\ search_calls <= 5 * Times("web_search")
    /\ next = "web_search" =>
          /\ SearchCalls(state) <= 5
          /\ SearchCalls(state) <= Len(state.search_queries)
          /\ \A answers \in LongAnswers(Len(Take(state.search_queries, QueryLimit))) :
                \A i \in 1..Len(web_search_node(state, answers).search_results) :
                    \E q \in 1..Min(5, Len(state.search_queries)) :
                        web_search_node(state, answers).search_results[i].query_source
                            = state.search_queries[q]

C29_Witness ==
    /\ Finished
    /\ search_calls = 15
    /\ Times("web_search") = 3
    /\ Len(state.search_queries) = 7

\* a is b with some of its entries left out
RECURSIVE IsSubList(_, _)
IsSubList(a, b) ==
    IF a = <<>> THEN TRUE
    ELSE IF b = <<>> THEN FALSE
    ELSE IF Head(a) = Head(b) THEN IsSubList(Tail(a), Tail(b))
    ELSE IsSubList(a, Tail(b))

\* the candidate's answer makes RelatedWork(...) or json.loads raise
FallsBack(r) ==
    r.kind = "badjson" \/ (r.kind = "json" /\ (r.relevance_score < 0 \/ r.relevance_score > 10))

C31_ScoresWithinScale ==
    \A i \in DOMAIN state.dimension_scores :
        LET dim == state.dimension_scores[i]
        IN  /\ dim.name \in {"Soundness", "Presentation", "Contribution"}
                => (dim.score >= 10 /\ dim.score <= 40)
            /\ dim.name = "Confidence" => (dim.score >= 10 /\ dim.score <= 50)

\* C32: pdf_to_markdown, metadata_extraction and dimensional_scoring execute at
\* most once in a run; once metadata_extraction has run, no step changes
\* paper_metadata; and dimension_scores and final_score are written by one step
\* only, the single execution of dimensional_scoring
C32_WrittenOnce ==
    [][/\ LastNode' \in {"pdf_to_markdown", "metadata_extraction", "dimensional_scoring"}
            => ~Executed(LastNode')
       /\ Executed("metadata_extraction")
            => (state'.paper_metadata = state.paper_metadata
                /\ "paper_metadata" \notin DOMAIN delta')
       /\ (\/ "dimension_scores" \in DOMAIN delta'
           \/ "final_score" \in DOMAIN delta'
           \/ state'.dimension_scores # state.dimension_scores
           \/ state'.final_score # state.final_score)
            => (LastNode' = "dimensional_scoring" /\ ~Executed("dimensional_scoring"))]_vars

C32_Witness ==
    /\ Finished
    /\ Times("pdf_to_markdown") = 1
    /\ Times("metadata_extraction") = 1
    /\ Times("dimensional_scoring") = 1
    /\ Times("relevance_evaluation") = 3
    /\ state.paper_metadata # None
    /\ state.final_score # None

\* the arxiv ids of a list of search results or of works
Ids(entries) == {entries[i].arxiv_id : i \in 1..Len(entries)}

\* C33: a later round replaces search_queries, search_results, related_works
\* and selected_related_works: after each of the three stages the field holds
\* what this execution returned (nothing, if it failed) and nothing of an
\* earlier round, and summarization is handed the works that the last
\* relevance_evaluation selected from the last search's results
C33_RoundsReplace ==
    /\ LastNode = "search_query_generation" =>
          /\ state.search_queries = delta.search_queries
          /\ LastFailed => state.search_queries = <<>>
    /\ LastNode = "web_search" =>
          /\ state.search_results = delta.search_results
          /\ LastFailed => state.search_results = <<>>
          /\ \A i \in 1..Len(state.search_results) :
                state.search_results[i].query_source \in SeqToSet(state.search_queries)
          /\ Cardinality(Ids(state.search_results)) = Len(state.search_results)
    /\ LastNode = "relevance_evaluation" =>
          /\ state.related_works = delta.related_works
          /\ state.selected_related_works = delta.selected_related_works
          /\ LastFailed => (state.related_works = <<>> /\ state.selected_related_works = <<>>)
          /\ Ids(state.related_works) \subseteq Ids(state.search_results)
          /\ Cardinality(Ids(state.related_works)) = Len(state.related_works)
    /\ next = "summarization" =>
          /\ LastNode = "reflection"
          /\ trace[Len(trace) - 1] = "relevance_evaluation"
          /\ state.selected_related_works = Take(state.related_works, SelectLimit)
          /\ Ids(state.selected_related_works) \subseteq Ids(state.search_results)
          /\ Cardinality(Ids(state.selected_related_works)) = Len(state.selected_related_works)

C33_Witness ==
    /\ next = "summarization"
    /\ state.iteration_count = 3
    /\ state.selected_related_works = <<>>
    /\ state.search_results # <<>>
    /\ state.errors = <<"Relevance evaluation failed">>

\* the scores of the three primary dimensions that the answer gives are on the
\* 1 to 4 scale (in tenths); a dimension the answer leaves out counts as 2.5
InScale(dimensions) ==
    \A i \in DOMAIN dimensions :
        dimensions[i].name # "Confidence" => dimensions[i].score \in {10, 20, 30, 40}

\* C34: for Soundness, Presentation and Contribution each in {1, 2, 3, 4} or
\* missing, the affine result lies between 1.8907 and 8.4799, inside [1, 10],
\* and the final score is that result, unchanged by the clamp
C34_ClampIdleInScale ==
    (Scored /\ InScale(state.dimension_scores)) =>
        LET dimensions == state.dimension_scores
            raw == -30570 + 7134 * ScoredAs(dimensions, "Soundness")
                   + 4242 * ScoredAs(dimensions, "Presentation")
                   + 10588 * ScoredAs(dimensions, "Contribution")
        IN  /\ raw >= 189070
            /\ raw <= 847990
            /\ state.final_score = Some(raw)

C34_Witness ==
    /\ Scored
    /\ state.dimension_scores = DimensionsOf(10, 10, 10, 0)
    /\ state.final_score = Some(189070)

\* C35: a finished run has current_stage "failed" or "complete", "failed"
\* exactly when it ended at the validation gate after metadata_extraction and
\* "complete" exactly when it ended after dimensional_scoring; and once a
\* stage's delta has put "failed" into current_stage, no further stage runs
C35_TerminalStages ==
    /\ Finished =>
          /\ state.current_stage \in {"failed", "complete"}
          /\ state.current_stage = "failed" <=> LastNode = "metadata_extraction"
          /\ state.current_stage = "complete" <=> LastNode = "dimensional_scoring"
    /\ (trace # <<>> /\ state.current_stage = "failed") => Finished

====
